---- MODULE Spec2Model ----
(***************************************************************************)
(* Model of the axon vLLM backend (src/src/vllm.rs and src/src/vllm/*.rs). *)
(*                                                                         *)
(* The backend object is the five fields of struct VllmBackend.  Around it *)
(* the model keeps the part of the operating system the code talks to: the *)
(* process table entries of the engine processes it spawned, and, for the  *)
(* most recent call, what the call returned and which HTTP requests and    *)
(* signals it issued.                                                      *)
(*                                                                         *)
(* Option<T> is modelled as a sequence of length at most one: None is <<>>,*)
(* Some(x) is <<x>>.                                                       *)
(***************************************************************************)
EXTENDS Integers, Sequences, FiniteSets, TLC

\* ---------------------------------------------------------------- bounds
\* Number of engine processes one run may spawn (caps the pid counter).
MaxSpawns == 2
\* Number of callers that may hold a call on the backend at the same time.
MaxCallers == 3

\* -------------------------------------------------------------- constants
\* wait_until_ready: `for _ in 0..60`
MaxAttempts == 60
\* VllmConfig::from_model_config / load_model: port.unwrap_or(8000)
DefaultPort == 8000
\* VllmProcess::port()
ProcessPort == 8000
\* port used by the explicit configurations the model feeds to load_model
ExplicitPort == 8080

None == <<>>
Some(x) == <<x>>
unwrap_or(opt, d) == IF opt = None THEN d ELSE opt[1]

Pids == 1..MaxSpawns
Callers == 1..MaxCallers

\* ------------------------------------------------------------------ inputs
ModelNames == {"", "m1", "m2"}
\* host and port are either both defaulted or both given
Endpoints == {[host |-> None, port |-> None],
              [host |-> Some("0.0.0.0"), port |-> Some(ExplicitPort)]}
\* ModelConfig::default()
ModelConfig_default ==
    [model_name |-> "", tensor_parallel_size |-> Some(1),
     max_batch_size |-> Some(256), max_sequence_length |-> Some(2048),
     dtype |-> Some("auto"), host |-> Some("127.0.0.1"), port |-> Some(8000),
     extra_options |-> <<>>]
ModelConfigs ==
    {[ModelConfig_default EXCEPT !.model_name = n, !.host = e.host, !.port = e.port] :
        n \in ModelNames, e \in Endpoints}

\* What one HTTP exchange can come to: a 2xx answer, another status, or a
\* failure below HTTP (connection refused, timeout).
Answers == {"2xx", "non2xx", "transport"}
\* Answers to POST /v1/completions: 2xx bodies are split by their choice list.
InferAnswers == {"2xx_choices", "2xx_empty", "non2xx", "transport"}
\* Readiness schedules: readyAt is the index of the first poll that answers
\* 2xx (0: no poll ever does), failKind what the polls before it come to.
Schedules == {[readyAt |-> 0, failKind |-> "transport"],
              [readyAt |-> 1, failKind |-> "transport"],
              [readyAt |-> 2, failKind |-> "non2xx"]}
\* Reaction of a running engine to SIGTERM within the grace period.
Reactions == {"exits", "exits_reaped", "ignores"}

ConnectUrl == [host |-> "localhost", port |-> 8000]

VARIABLES
    process,        \* VllmBackend.process : Option<VllmProcess>
    client,         \* VllmBackend.client : Option<VllmClient> (its base_url)
    owns_process,   \* VllmBackend.owns_process
    current_model,  \* VllmBackend.current_model : Option<String>
    metrics,        \* VllmBackend.metrics
    os,             \* process table entry of every pid the backend may spawn
    nextPid,        \* pid the next successful spawn returns
    dropped,        \* the backend object has gone out of scope
    load_called,    \* load_model has been called on this object
    failed_reported,\* health_check has returned Failed since the last shutdown
    inflight,       \* per caller, the call it has in progress on the backend
    last            \* the most recent call: arguments, pre-state, effects

vars == <<process, client, owns_process, current_model, metrics, os, nextPid,
          dropped, load_called, failed_reported, inflight, last>>

backend == <<process, client, owns_process, current_model, metrics>>

\* --------------------------------------------------------- BackendMetrics
BackendMetrics_new ==
    [pending_requests |-> 0, total_requests |-> 0, failed_requests |-> 0]

\* ------------------------------------------------------- operating system
\* A pid is "unused" until spawn returns it.  The child then is "running".
\* spawn() keeps only child.id() and drops the Child without waiting for it,
\* so a child that exits stays in the process table as a "zombie" until
\* something outside this code reaps it; only then is the pid "gone".
\* libc::ESRCH
ESRCH == 3

\* libc::kill(pid, 0): 0 when the pid resolves to a process table entry
\* (a zombie is one), -1 with errno ESRCH when it does not.
kill0(table, pid) ==
    IF table[pid] \in {"running", "zombie"}
    THEN [result |-> 0, errno |-> 0]
    ELSE [result |-> -1, errno |-> ESRCH]

\* VllmProcess::is_running
is_running(table, proc) ==
    IF proc.pid # None
    THEN LET r == kill0(table, proc.pid[1])
         IN  r.result = 0 \/ (r.result = -1 /\ r.errno # ESRCH)
    ELSE FALSE

\* VllmBackend::check_process
check_process(table, procOpt) ==
    IF procOpt # None THEN is_running(table, procOpt[1]) ELSE FALSE

\* ------------------------------------------------------- Config Translator
\* A translation that binds to every interface when no host is given.
from_model_config_binds_all(config) ==
    [model_name |-> config.model_name,
     host |-> unwrap_or(config.host, "0.0.0.0"),
     port |-> unwrap_or(config.port, DefaultPort),
     tensor_parallel_size |-> config.tensor_parallel_size,
     max_sequence_length |-> config.max_sequence_length,
     dtype |-> config.dtype]

\* VllmConfig::from_model_config
from_model_config(config) ==
    [model_name |-> config.model_name,
     host |-> unwrap_or(config.host, "127.0.0.1"),
     port |-> unwrap_or(config.port, DefaultPort),
     tensor_parallel_size |-> config.tensor_parallel_size,
     max_sequence_length |-> config.max_sequence_length,
     dtype |-> config.dtype]

\* --------------------------------------------------------- Wire Adapter
\* A health_check with the status test the wrong way round.
client_health_check_inverted(answer) ==
    CASE answer = "transport" -> "HttpError"
      [] answer = "2xx"       -> "Unhealthy"
      [] OTHER                -> "Ok"

\* VllmClient::health_check on an exchange that came to `answer`
client_health_check(answer) ==
    CASE answer = "transport" -> "HttpError"
      [] answer = "2xx"       -> "Ok"
      [] OTHER                -> "Unhealthy"

\* VllmClient::infer on an exchange that came to `answer`
client_infer(answer) ==
    CASE answer = "transport"   -> "HttpError"
      [] answer = "non2xx"      -> "InferenceFailed"
      [] answer = "2xx_empty"   -> "InferenceFailed"
      [] OTHER                  -> "Ok"

Get(url, answer) == [method |-> "GET", url |-> url, path |-> "/health", answer |-> answer]
Post(url, answer) == [method |-> "POST", url |-> url, path |-> "/v1/completions", answer |-> answer]

\* ----------------------------------------------------- Process Supervisor
\* VllmProcess::host / VllmProcess::port
process_url == [host |-> "127.0.0.1", port |-> ProcessPort]

\* Answer of the i-th readiness poll under the schedule (readyAt, failKind);
\* under "mixed" the polls before readyAt fail in both ways in turn.
PollAnswer(i, readyAt, failKind) ==
    IF readyAt # 0 /\ i >= readyAt THEN "2xx"
    ELSE IF failKind = "mixed"
         THEN (IF i % 2 = 0 THEN "non2xx" ELSE "transport")
         ELSE failKind

\* A readiness loop that gives up on the first transport error.
RECURSIVE wait_loop_fatal_transport(_, _, _)
wait_loop_fatal_transport(i, readyAt, failKind) ==
    IF i > MaxAttempts
    THEN [result |-> "ModelLoadFailed", polls |-> MaxAttempts]
    ELSE IF PollAnswer(i, readyAt, failKind) = "2xx"
         THEN [result |-> "Ok", polls |-> i]
         ELSE IF PollAnswer(i, readyAt, failKind) = "transport"
              THEN [result |-> "ModelLoadFailed", polls |-> i]
              ELSE wait_loop_fatal_transport(i + 1, readyAt, failKind)

\* VllmProcess::wait_until_ready: the loop from attempt i on; returns the
\* result and the number of polls made.
RECURSIVE wait_loop(_, _, _)
wait_loop(i, readyAt, failKind) ==
    IF i > MaxAttempts
    THEN [result |-> "ModelLoadFailed", polls |-> MaxAttempts]
    ELSE IF PollAnswer(i, readyAt, failKind) = "2xx"
         THEN [result |-> "Ok", polls |-> i]
         ELSE wait_loop(i + 1, readyAt, failKind)

wait_until_ready(readyAt, failKind) == wait_loop(1, readyAt, failKind)

\* A terminate() that reports the failure of kill on a pid that is gone.
terminate_result_esrch(table, proc) ==
    IF proc.pid # None /\ kill0(table, proc.pid[1]).result = -1
    THEN "BackendError" ELSE "Ok"

\* The result terminate() hands back: the return values of kill are not
\* looked at, it is Ok(()) on every path.
terminate_result(table, proc) == "Ok"

\* A terminate() that sends SIGKILL after the grace period without looking.
terminate_always_kills(table, proc, reaction) ==
    IF proc.pid # None
    THEN LET pid == proc.pid[1]
             afterTerm ==
                 IF table[pid] = "running" /\ reaction # "ignores"
                 THEN [table EXCEPT ![pid] =
                          IF reaction = "exits_reaped" THEN "gone" ELSE "zombie"]
                 ELSE table
             afterKill ==
                 IF afterTerm[pid] = "running"
                 THEN [afterTerm EXCEPT ![pid] = "zombie"]
                 ELSE afterTerm
         IN  [table |-> afterKill,
              signals |-> <<"SIGTERM", "SIGKILL">>,
              recheck |-> Some(is_running(afterTerm, proc)),
              grace |-> afterTerm[pid],
              result |-> terminate_result(table, proc)]
    ELSE [table |-> table, signals |-> <<>>, recheck |-> None,
          grace |-> "nohandle", result |-> terminate_result(table, proc)]

\* VllmProcess::terminate: SIGTERM, the 5 s grace period, is_running, SIGKILL.
\* Returns the process table afterwards, the signals sent, the state of the
\* pid at the end of the grace period, what the re-check of liveness said
\* there, and the result.
terminate(table, proc, reaction) ==
    IF proc.pid # None
    THEN LET pid == proc.pid[1]
             afterTerm ==
                 IF table[pid] = "running" /\ reaction # "ignores"
                 THEN [table EXCEPT ![pid] =
                          IF reaction = "exits_reaped" THEN "gone" ELSE "zombie"]
                 ELSE table
             still == is_running(afterTerm, proc)
             afterKill ==
                 IF still /\ afterTerm[pid] = "running"
                 THEN [afterTerm EXCEPT ![pid] = "zombie"]
                 ELSE afterTerm
         IN  [table |-> afterKill,
              signals |-> IF still THEN <<"SIGTERM", "SIGKILL">> ELSE <<"SIGTERM">>,
              recheck |-> Some(still),
              grace |-> afterTerm[pid],
              result |-> terminate_result(table, proc)]
    ELSE [table |-> table, signals |-> <<>>, recheck |-> None,
          grace |-> "nohandle", result |-> terminate_result(table, proc)]

\* ------------------------------------------------------------ call record
\* pstate: process table state of the pid the handle refers to ("nohandle"
\* when there is no handle).  launched: the endpoint the engine spawned by
\* the call was told to listen on.  sched, poll_url: the readiness schedule
\* the call's polling met and the endpoint it polled.  grace, recheck: the
\* state of the pid when terminate's grace period ended and what is_running
\* said then.
HandleState(table, procOpt) ==
    IF procOpt = None THEN "nohandle" ELSE table[procOpt[1].pid[1]]

Pre == [process |-> process, client |-> client, current_model |-> current_model,
        pstate |-> HandleState(os, process)]

\* repeat: the call before this one was a call of the same operation.
NoCall == [op |-> "none", result |-> "none", pre |-> Pre, model_name |-> "",
           http |-> <<>>, polls |-> 0, signals |-> <<>>, spawned |-> 0,
           launched |-> None, sched |-> None, poll_url |-> None,
           recheck |-> None, grace |-> "nohandle", repeat |-> FALSE]

Call(op, result, model_name, http, polls, signals, spawned) ==
    [op |-> op, result |-> result, pre |-> Pre, model_name |-> model_name,
     http |-> http, polls |-> polls, signals |-> signals, spawned |-> spawned,
     launched |-> None, sched |-> None, poll_url |-> None,
     recheck |-> None, grace |-> "nohandle", repeat |-> (last.op = op)]

\* ------------------------------------------------------------------- Init
\* VllmBackend::new() or VllmBackend::connect_to(base_url)
Init ==
    /\ process = None
    /\ owns_process \in BOOLEAN
    /\ client = IF owns_process THEN None ELSE Some(ConnectUrl)
    /\ current_model = None
    /\ metrics = BackendMetrics_new
    /\ os = [p \in Pids |-> "unused"]
    /\ nextPid = 1
    /\ dropped = FALSE
    /\ load_called = FALSE
    /\ failed_reported = FALSE
    /\ inflight = [c \in Callers |-> "idle"]
    /\ last = NoCall

\* The backend object as a value.
Self == [process |-> process, client |-> client,
         current_model |-> current_model, owns_process |-> owns_process]

\* ---------------------------------------------------------- load_model
\* A validation that lets every configuration through.
config_is_empty_unchecked(config) == FALSE

\* load_model's validation: config.model_name.is_empty()
config_is_empty(config) == config.model_name = ""

\* A load_model that records the model identifier before the concluding
\* probe has answered.
load_model_records_first(table, pid, self, config, env) ==
    LET procOpt == self.process
        clientOpt == self.client
        modelOpt == self.current_model
        owns == self.owns_process
        spawnOk == env.spawnOk
        sched == env.sched
        answer == env.answer
        same == [process |-> procOpt, client |-> clientOpt,
                 current_model |-> modelOpt, table |-> table,
                 http |-> <<>>, polls |-> 0, spawned |-> 0,
                 launched |-> None, sched |-> None, poll_url |-> None]
    IN
    IF config_is_empty(config)
    THEN same @@ [result |-> "InvalidConfig"]
    ELSE
    IF owns
    THEN
        IF ~spawnOk
        THEN same @@ [result |-> "ModelLoadFailed"]
        ELSE
        LET vllm_config == from_model_config(config)
            spawnedTable == [table EXCEPT ![pid] = "running"]
            launched == Some([host |-> vllm_config.host,
                              port |-> vllm_config.port])
            ready == wait_until_ready(sched.readyAt, sched.failKind)
            base_url == [host |-> unwrap_or(config.host, "127.0.0.1"),
                         port |-> unwrap_or(config.port, DefaultPort)]
            probe == client_health_check(answer)
        IN
        IF ready.result # "Ok"
        THEN [process |-> procOpt, client |-> clientOpt,
              current_model |-> modelOpt, table |-> spawnedTable,
              http |-> <<>>, polls |-> ready.polls, spawned |-> pid,
              launched |-> launched, sched |-> Some(sched),
              poll_url |-> Some(process_url), result |-> ready.result]
        ELSE [process |-> Some([pid |-> Some(pid)]),
              client |-> Some(base_url),
              current_model |-> Some(config.model_name),
              table |-> spawnedTable,
              http |-> <<Get(base_url, answer)>>,
              polls |-> ready.polls, spawned |-> pid,
              launched |-> launched, sched |-> Some(sched),
              poll_url |-> Some(process_url), result |-> probe]
    ELSE
        IF clientOpt # None
        THEN LET probe == client_health_check(answer)
             IN  [same EXCEPT !.http = <<Get(clientOpt[1], answer)>>,
                              !.current_model = Some(config.model_name)]
                 @@ [result |-> probe]
        ELSE [same EXCEPT !.current_model = Some(config.model_name)]
             @@ [result |-> "Ok"]

\* VllmBackend::load_model on the backend `self` with the process table
\* `table`; pid is the pid a spawn would return.  env.spawnOk: Command::spawn
\* succeeds; env.sched: the answers of the readiness polls; env.answer: the
\* answer of the concluding health probe.
load_model(table, pid, self, config, env) ==
    LET procOpt == self.process
        clientOpt == self.client
        modelOpt == self.current_model
        owns == self.owns_process
        spawnOk == env.spawnOk
        sched == env.sched
        answer == env.answer
        same == [process |-> procOpt, client |-> clientOpt,
                 current_model |-> modelOpt, table |-> table,
                 http |-> <<>>, polls |-> 0, spawned |-> 0,
                 launched |-> None, sched |-> None, poll_url |-> None]
    IN
    IF config_is_empty(config)
    THEN same @@ [result |-> "InvalidConfig"]
    ELSE
    IF owns
    THEN
        IF ~spawnOk
        THEN same @@ [result |-> "ModelLoadFailed"]
        ELSE
        LET vllm_config == from_model_config(config)
            spawnedTable == [table EXCEPT ![pid] = "running"]
            launched == Some([host |-> vllm_config.host,
                              port |-> vllm_config.port])
            ready == wait_until_ready(sched.readyAt, sched.failKind)
            base_url == [host |-> unwrap_or(config.host, "127.0.0.1"),
                         port |-> unwrap_or(config.port, DefaultPort)]
            probe == client_health_check(answer)
        IN
        IF ready.result # "Ok"
        THEN [process |-> procOpt, client |-> clientOpt,
              current_model |-> modelOpt, table |-> spawnedTable,
              http |-> <<>>, polls |-> ready.polls, spawned |-> pid,
              launched |-> launched, sched |-> Some(sched),
              poll_url |-> Some(process_url), result |-> ready.result]
        ELSE [process |-> Some([pid |-> Some(pid)]),
              client |-> Some(base_url),
              current_model |-> IF probe = "Ok" THEN Some(config.model_name)
                                ELSE modelOpt,
              table |-> spawnedTable,
              http |-> <<Get(base_url, answer)>>,
              polls |-> ready.polls, spawned |-> pid,
              launched |-> launched, sched |-> Some(sched),
              poll_url |-> Some(process_url), result |-> probe]
    ELSE
        IF clientOpt # None
        THEN LET probe == client_health_check(answer)
             IN  [same EXCEPT !.http = <<Get(clientOpt[1], answer)>>,
                              !.current_model =
                                  IF probe = "Ok" THEN Some(config.model_name)
                                  ELSE modelOpt]
                 @@ [result |-> probe]
        ELSE [same EXCEPT !.current_model = Some(config.model_name)]
             @@ [result |-> "Ok"]

LoadModel(config, spawnOk, sched, answer) ==
    /\ ~dropped
    /\ (owns_process /\ spawnOk) => nextPid <= MaxSpawns
    /\ \E r \in {load_model(os, nextPid, Self, config,
                           [spawnOk |-> spawnOk, sched |-> sched,
                            answer |-> answer])} :
           /\ process' = r.process
           /\ client' = r.client
           /\ current_model' = r.current_model
           /\ os' = r.table
           /\ nextPid' = IF r.spawned # 0 THEN nextPid + 1 ELSE nextPid
           /\ last' = [Call("load_model", r.result, config.model_name,
                            r.http, r.polls, <<>>, r.spawned)
                          EXCEPT !.launched = r.launched,
                                 !.sched = r.sched,
                                 !.poll_url = r.poll_url]
    /\ load_called' = TRUE
    /\ UNCHANGED <<owns_process, metrics, dropped, failed_reported, inflight>>

\* --------------------------------------------------------------- infer
\* An infer that reports a missing client as a failed inference.
infer_wrong_kind(table, procOpt, clientOpt, owns, answer) ==
    IF clientOpt = None
    THEN [result |-> "InferenceFailed", http |-> <<>>]
    ELSE IF owns /\ ~check_process(table, procOpt)
         THEN [result |-> "BackendNotRunning", http |-> <<>>]
         ELSE [result |-> client_infer(answer),
               http |-> <<Post(clientOpt[1], answer)>>]

\* An infer that sends the request a second time when the first attempt
\* failed below HTTP.
infer_retries(table, procOpt, clientOpt, owns, answer) ==
    IF clientOpt = None
    THEN [result |-> "BackendNotRunning", http |-> <<>>]
    ELSE IF owns /\ ~check_process(table, procOpt)
         THEN [result |-> "BackendNotRunning", http |-> <<>>]
         ELSE [result |-> client_infer(answer),
               http |-> IF answer = "transport"
                        THEN <<Post(clientOpt[1], answer), Post(clientOpt[1], answer)>>
                        ELSE <<Post(clientOpt[1], answer)>>]

\* VllmBackend::infer
infer(table, procOpt, clientOpt, owns, answer) ==
    IF clientOpt = None
    THEN [result |-> "BackendNotRunning", http |-> <<>>]
    ELSE IF owns /\ ~check_process(table, procOpt)
         THEN [result |-> "BackendNotRunning", http |-> <<>>]
         ELSE [result |-> client_infer(answer),
               http |-> <<Post(clientOpt[1], answer)>>]

Infer(answer) ==
    /\ ~dropped
    /\ \E r \in {infer(os, process, client, owns_process, answer)} :
           last' = Call("infer", r.result, "", r.http, 0, <<>>, 0)
    /\ UNCHANGED <<backend, os, nextPid, dropped, load_called,
                   failed_reported, inflight>>

\* -------------------------------------------------------- health_check
\* A health_check that hands the probe's error to the caller.
health_check_propagates(table, procOpt, clientOpt, owns, answer) ==
    IF owns /\ procOpt # None /\ ~is_running(table, procOpt[1])
    THEN [result |-> "Failed", http |-> <<>>]
    ELSE IF clientOpt # None
         THEN [result |-> IF client_health_check(answer) = "Ok"
                          THEN "Healthy" ELSE client_health_check(answer),
               http |-> <<Get(clientOpt[1], answer)>>]
         ELSE [result |-> "Starting", http |-> <<>>]

\* A health_check that decides liveness with check_process, as infer does:
\* an owning backend without a handle counts as dead.
health_check_via_check_process(table, procOpt, clientOpt, owns, answer) ==
    IF owns /\ ~check_process(table, procOpt)
    THEN [result |-> "Failed", http |-> <<>>]
    ELSE IF clientOpt # None
         THEN [result |-> IF client_health_check(answer) = "Ok"
                          THEN "Healthy" ELSE "Degraded",
               http |-> <<Get(clientOpt[1], answer)>>]
         ELSE [result |-> "Starting", http |-> <<>>]

\* VllmBackend::health_check
health_check(table, procOpt, clientOpt, owns, answer) ==
    IF owns /\ procOpt # None /\ ~is_running(table, procOpt[1])
    THEN [result |-> "Failed", http |-> <<>>]
    ELSE IF clientOpt # None
         THEN [result |-> IF client_health_check(answer) = "Ok"
                          THEN "Healthy" ELSE "Degraded",
               http |-> <<Get(clientOpt[1], answer)>>]
         ELSE [result |-> "Starting", http |-> <<>>]

\* A health_check that lets go of the handle of a process it found dead.
HealthCheck_takes_dead_handle(answer) ==
    /\ ~dropped
    /\ \E r \in {health_check(os, process, client, owns_process, answer)} :
           /\ last' = Call("health_check", r.result, "", r.http, 0, <<>>, 0)
           /\ failed_reported' = (failed_reported \/ r.result = "Failed")
           /\ process' = IF r.result = "Failed" THEN None ELSE process
    /\ UNCHANGED <<client, owns_process, current_model, metrics, os, nextPid,
                   dropped, load_called, inflight>>

\* VllmBackend::health_check as a step of the backend
HealthCheck(answer) ==
    /\ ~dropped
    /\ \E r \in {health_check(os, process, client, owns_process, answer)} :
           /\ last' = Call("health_check", r.result, "", r.http, 0, <<>>, 0)
           /\ failed_reported' = (failed_reported \/ r.result = "Failed")
    /\ UNCHANGED <<backend, os, nextPid, dropped, load_called, inflight>>

\* ------------------------------------------------------------- metrics
\* A metrics() that counts itself as a request.
Metrics_counts_itself ==
    /\ ~dropped
    /\ last' = Call("metrics", "Ok", "", <<>>, 0, <<>>, 0)
    /\ metrics' = [metrics EXCEPT !.total_requests = IF @ < 2 THEN @ + 1 ELSE @]
    /\ UNCHANGED <<process, client, owns_process, current_model, os, nextPid,
                   dropped, load_called, failed_reported, inflight>>

\* VllmBackend::metrics
Metrics ==
    /\ ~dropped
    /\ last' = Call("metrics", "Ok", "", <<>>, 0, <<>>, 0)
    /\ UNCHANGED <<backend, os, nextPid, dropped, load_called,
                   failed_reported, inflight>>

\* ------------------------------------------------------------ shutdown
\* VllmBackend::shutdown: process.take(), terminate()?, then the clearing.
shutdown(table, procOpt, clientOpt, modelOpt, reaction) ==
    LET t == IF procOpt # None THEN terminate(table, procOpt[1], reaction)
             ELSE [table |-> table, signals |-> <<>>, recheck |-> None,
                   grace |-> "nohandle", result |-> "Ok"]
    IN  IF t.result # "Ok"
        THEN [process |-> None, client |-> clientOpt,
              current_model |-> modelOpt, table |-> t.table,
              signals |-> t.signals, recheck |-> t.recheck,
              grace |-> t.grace, result |-> t.result]
        ELSE [process |-> None, client |-> None, current_model |-> None,
              table |-> t.table, signals |-> t.signals,
              recheck |-> t.recheck, grace |-> t.grace, result |-> "Ok"]

Shutdown(reaction) ==
    /\ ~dropped
    /\ \E r \in {shutdown(os, process, client, current_model, reaction)} :
           /\ process' = r.process
           /\ client' = r.client
           /\ current_model' = r.current_model
           /\ os' = r.table
           /\ last' = [Call("shutdown", r.result, "", <<>>, 0, r.signals, 0)
                          EXCEPT !.recheck = r.recheck, !.grace = r.grace]
    /\ failed_reported' = FALSE
    /\ UNCHANGED <<owns_process, metrics, nextPid, dropped, load_called,
                   inflight>>

\* ---------------------------------------------------------------- drop
\* The backend goes out of scope.  Neither VllmBackend nor VllmProcess
\* implements Drop, and a VllmProcess holds only the pid: no signal is sent.
Drop ==
    /\ ~dropped
    /\ dropped' = TRUE
    /\ last' = Call("drop", "Ok", "", <<>>, 0, <<>>, 0)
    /\ UNCHANGED <<backend, os, nextPid, load_called, failed_reported,
                   inflight>>

\* --------------------------------------------------------- environment
\* A running engine process exits on its own (crash, out of memory, ...).
ProcExit(pid) ==
    /\ os[pid] = "running"
    /\ os' = [os EXCEPT ![pid] = "zombie"]
    /\ UNCHANGED <<backend, nextPid, dropped, load_called, failed_reported,
                   inflight, last>>

\* Something outside this code reaps an exited child (the host program waits
\* for its children, or ignores SIGCHLD): the pid leaves the process table.
Reap(pid) ==
    /\ os[pid] = "zombie"
    /\ os' = [os EXCEPT ![pid] = "gone"]
    /\ UNCHANGED <<backend, nextPid, dropped, load_called, failed_reported,
                   inflight, last>>

Next ==
    \/ \E config \in ModelConfigs, spawnOk \in BOOLEAN, sched \in Schedules,
          answer \in Answers :
          LoadModel(config, spawnOk, sched, answer)
    \/ \E answer \in InferAnswers : Infer(answer)
    \/ \E answer \in Answers : HealthCheck(answer)
    \/ Metrics
    \/ \E reaction \in Reactions : Shutdown(reaction)
    \/ Drop
    \/ \E pid \in Pids : ProcExit(pid)
    \/ \E pid \in Pids : Reap(pid)

Spec == Init /\ [][Next]_vars

\* ------------------------------------------------ calls that overlap in time
\* The receivers of the five operations of trait InferenceBackend.
MutOps == {"load_model", "shutdown"}
SharedOps == {"infer", "health_check", "metrics"}

\* A borrow rule that lets every call start.
borrow_unchecked(held, op) == TRUE

\* Whether a call of `op` can start while the calls in `held` are in
\* progress on the same backend: a `&mut self` call needs the backend to
\* itself, a `&self` call needs that no `&mut self` call holds it.
borrow_allows(held, op) ==
    IF op \in MutOps THEN held = {} ELSE held \cap MutOps = {}

Held == {inflight[c] : c \in Callers} \ {"idle"}

\* Caller c starts a call: the future borrows the backend until it is done.
BeginCall(c, op) ==
    /\ ~dropped
    /\ inflight[c] = "idle"
    /\ borrow_allows(Held, op)
    /\ inflight' = [inflight EXCEPT ![c] = op]
    /\ UNCHANGED <<backend, os, nextPid, dropped, load_called,
                   failed_reported, last>>

\* The call of caller c is over and its borrow ends.
EndCall(c) ==
    /\ inflight[c] # "idle"
    /\ inflight' = [inflight EXCEPT ![c] = "idle"]
    /\ UNCHANGED <<backend, os, nextPid, dropped, load_called,
                   failed_reported, last>>

\* Only the extent of the calls in time; what each call does to the backend
\* is what Spec describes.
NextBorrow ==
    \/ \E c \in Callers, op \in MutOps \cup SharedOps : BeginCall(c, op)
    \/ \E c \in Callers : EndCall(c)

SpecBorrow == Init /\ [][NextBorrow]_vars

\* ------------------------------------------------- readiness polling alone
\* The first load_model of an owning backend under every readiness schedule:
\* the first 2xx at any of the attempts or at none, after failures of
\* either kind.
AllSchedules ==
    {[readyAt |-> k, failKind |-> f] :
        k \in 0..MaxAttempts, f \in {"non2xx", "transport", "mixed"}}

WaitConfig == [ModelConfig_default EXCEPT !.model_name = "m1", !.host = None, !.port = None]

FirstLoad(sched, answer) ==
    /\ nextPid = 1
    /\ LoadModel(WaitConfig, TRUE, sched, answer)

InitWait == Init /\ owns_process

NextWait ==
    \/ \E sched \in AllSchedules, answer \in Answers : FirstLoad(sched, answer)
    \/ \E reaction \in Reactions : Shutdown(reaction)
    \/ \E pid \in Pids : ProcExit(pid)

SpecWait == InitWait /\ [][NextWait]_vars

\* ------------------------------------------------- the wire adapter alone
\* VllmClient::infer on its own: the request it is given, the body it sends
\* and what it makes of the answer.  An f32 is written by its decimal text;
\* "NaN" and "inf" are the values of the type that are not finite.  A JSON
\* value is the sequence of its tokens.
FiniteF32 == {"0.0", "0.9", "1.0"}
NonFiniteF32 == {"NaN", "inf"}

SamplingParamsSet ==
    [max_tokens : {100},
     temperature : {"1.0"},
     top_p : {None, Some("0.9"), Some("NaN")},
     top_k : {None, Some(40), Some(0)},
     presence_penalty : {None, Some("0.0"), Some("inf")},
     frequency_penalty : {None, Some("0.0")},
     stop_sequences : {<<>>, <<"a">>, <<"a", "b">>}]

InferenceRequests ==
    [prompt : {"Hello"}, sampling : SamplingParamsSet,
     request_id : {None, Some("r1"), Some("r2")}]

\* VllmChoice values an engine may answer with
Choice1 == [text |-> "hi", finish_reason |-> "stop", text_tokens |-> Some(2)]
Choice2 == [text |-> "yo", finish_reason |-> "length", text_tokens |-> None]

\* What the exchange comes to: no answer at all, an answer with a status
\* that is not 2xx, a 2xx answer whose body does not decode as a
\* VllmCompletionResponse, or a 2xx answer with a list of choices.
WireResponses ==
    {[kind |-> "transport", decodable |-> FALSE, choices |-> <<>>],
     [kind |-> "non2xx", decodable |-> FALSE, choices |-> <<>>],
     [kind |-> "2xx", decodable |-> FALSE, choices |-> <<>>]}
    \cup {[kind |-> "2xx", decodable |-> TRUE, choices |-> c] :
             c \in {<<>>, <<Choice1>>, <<Choice2>>, <<Choice1, Choice2>>,
                    <<Choice2, Choice1>>}}

\* The struct VllmClient::infer builds from the request.
VllmCompletionRequest(request) ==
    [model |-> "default",
     prompt |-> request.prompt,
     max_tokens |-> request.sampling.max_tokens,
     temperature |-> request.sampling.temperature,
     top_p |-> request.sampling.top_p,
     top_k |-> request.sampling.top_k,
     presence_penalty |-> request.sampling.presence_penalty,
     frequency_penalty |-> request.sampling.frequency_penalty,
     stop |-> IF request.sampling.stop_sequences = <<>> THEN None
              ELSE Some(request.sampling.stop_sequences)]

RequiredFields == {"model", "prompt", "max_tokens", "temperature"}
OptionalFields == {"top_p", "top_k", "presence_penalty", "frequency_penalty", "stop"}

\* JSON of an f32: the number, or null for a value that is not finite.
serialize_f32(x) == IF x \in NonFiniteF32 THEN <<"null">> ELSE <<x>>
serialize_u32(n) == <<ToString(n)>>
serialize_str(str) == <<"\"", str, "\"">>
serialize_seq(strs) == <<"[">> \o strs \o <<"]">>

serialize_field(req, f) ==
    CASE f = "model"             -> serialize_str(req.model)
      [] f = "prompt"            -> serialize_str(req.prompt)
      [] f = "max_tokens"        -> serialize_u32(req.max_tokens)
      [] f = "temperature"       -> serialize_f32(req.temperature)
      [] f = "top_p"             -> serialize_f32(req.top_p[1])
      [] f = "top_k"             -> serialize_u32(req.top_k[1])
      [] f = "presence_penalty"  -> serialize_f32(req.presence_penalty[1])
      [] f = "frequency_penalty" -> serialize_f32(req.frequency_penalty[1])
      [] OTHER                   -> serialize_seq(req.stop[1])

\* The body `.json(&vllm_req)` sends: derive(Serialize) with
\* skip_serializing_if = "Option::is_none" on the five optional fields.
to_json(req) ==
    [f \in RequiredFields \cup {g \in OptionalFields : req[g] # None} |->
        serialize_field(req, f)]

\* An adapter that consumes the last choice of the answer.
VllmClient_infer_last_choice(request, resp) ==
    LET body == to_json(VllmCompletionRequest(request))
        failed(kind) == [body |-> body, result |-> kind, response |-> None]
    IN  IF resp.kind = "transport" THEN failed("HttpError")
        ELSE IF resp.kind # "2xx" THEN failed("InferenceFailed")
        ELSE IF ~resp.decodable THEN failed("HttpError")
        ELSE IF resp.choices = <<>> THEN failed("InferenceFailed")
        ELSE LET choice == resp.choices[Len(resp.choices)]
             IN  [body |-> body, result |-> "Ok",
                  response |-> Some([text |-> choice.text,
                      tokens_generated |-> unwrap_or(choice.text_tokens, 0),
                      finish_reason |-> choice.finish_reason,
                      request_id |-> request.request_id])]

\* VllmClient::infer: the body sent, the result and the InferenceResponse.
\* inference_time and tokens_per_second are measured durations and are not
\* part of the model.
VllmClient_infer(request, resp) ==
    LET body == to_json(VllmCompletionRequest(request))
        failed(kind) == [body |-> body, result |-> kind, response |-> None]
    IN  IF resp.kind = "transport" THEN failed("HttpError")
        ELSE IF resp.kind # "2xx" THEN failed("InferenceFailed")
        ELSE IF ~resp.decodable THEN failed("HttpError")
        ELSE IF resp.choices = <<>> THEN failed("InferenceFailed")
        ELSE LET choice == Head(resp.choices)
             IN  [body |-> body, result |-> "Ok",
                  response |-> Some([text |-> choice.text,
                      tokens_generated |-> unwrap_or(choice.text_tokens, 0),
                      finish_reason |-> choice.finish_reason,
                      request_id |-> request.request_id])]

\* One call of the adapter; the call record keeps the request, the answer,
\* the body and the response.
ClientInfer(request, resp) ==
    /\ \E r \in {VllmClient_infer(request, resp)} :
           last' = [op |-> "client_infer", result |-> r.result,
                    request |-> request, resp |-> resp, body |-> r.body,
                    response |-> r.response]
    /\ UNCHANGED <<backend, os, nextPid, dropped, load_called,
                   failed_reported, inflight>>

InitWire == Init /\ ~owns_process

NextWire == \E request \in InferenceRequests, resp \in WireResponses : ClientInfer(request, resp)

SpecWire == InitWire /\ [][NextWire]_vars

\* ---------------------------------------------- the config translator alone
\* VllmConfig::from_model_config on every combination of the fields of a
\* ModelConfig.
AllModelConfigs ==
    [model_name : ModelNames,
     tensor_parallel_size : {None, Some(1), Some(2)},
     max_batch_size : {None, Some(256)},
     max_sequence_length : {None, Some(4096)},
     dtype : {None, Some("auto"), Some("bfloat16")},
     host : {None, Some("0.0.0.0"), Some("127.0.0.1")},
     port : {None, Some(DefaultPort), Some(ExplicitPort)},
     extra_options : {<<>>}]

FromModelConfig(config) ==
    /\ last' = [op |-> "from_model_config", result |-> "Ok", config |-> config,
                vllm_config |-> from_model_config(config)]
    /\ UNCHANGED <<backend, os, nextPid, dropped, load_called,
                   failed_reported, inflight>>

NextConfig == \E config \in AllModelConfigs : FromModelConfig(config)

SpecConfig == InitWait /\ [][NextConfig]_vars

TypeOK ==
    /\ owns_process \in BOOLEAN
    /\ dropped \in BOOLEAN
    /\ load_called \in BOOLEAN
    /\ nextPid \in 1..(MaxSpawns + 1)
    /\ Len(process) <= 1
    /\ Len(client) <= 1
    /\ Len(current_model) <= 1
    /\ \A p \in Pids : os[p] \in {"unused", "running", "zombie", "gone"}
    /\ failed_reported \in BOOLEAN
    /\ \A c \in Callers : inflight[c] \in MutOps \cup SharedOps \cup {"idle"}

\* ================================================================ claims
Exited == {"zombie", "gone"}
HealthStatuses == {"Healthy", "Starting", "Degraded", "Failed"}
Terminated == process = None /\ client = None /\ current_model = None
Running == {p \in Pids : os[p] = "running"}

\* C1: on an owning backend with a wire adapter, infer() on a backend whose
\* owned process has exited fails with BackendNotRunning and sends no
\* request to /v1/completions.
C1_InferOnExitedProcess ==
    (last.op = "infer" /\ owns_process /\ last.pre.client # None
        /\ last.pre.pstate \in Exited)
    => (last.result = "BackendNotRunning" /\ last.http = <<>>)

\* C2: health_check() on a backend that holds an owned process which is not
\* alive returns Failed and makes no HTTP probe.
C2_HealthOnExitedProcess ==
    (last.op = "health_check" /\ owns_process /\ last.pre.pstate \in Exited)
    => (last.result = "Failed" /\ last.http = <<>>)

\* C3: health_check() returns one of the four statuses, never an error; when
\* it is not Failed it is Starting without any request if there is no wire
\* adapter, and otherwise exactly one GET /health was sent to the adapter's
\* endpoint and the result is Healthy on 2xx, Degraded on anything else.
C3_HealthCheckResult ==
    last.op = "health_check" =>
        /\ last.result \in HealthStatuses
        /\ last.result # "Failed" =>
              IF last.pre.client = None
              THEN last.result = "Starting" /\ last.http = <<>>
              ELSE /\ Len(last.http) = 1
                   /\ last.http[1].method = "GET"
                   /\ last.http[1].path = "/health"
                   /\ last.http[1].url = last.pre.client[1]
                   /\ last.result = IF last.http[1].answer = "2xx"
                                    THEN "Healthy" ELSE "Degraded"

C3_Witness ==
    /\ last.op = "health_check"
    /\ last.result = "Degraded"
    /\ last.pre.pstate = "running"
    /\ last.http[1].answer = "transport"

\* C4 (as claimed): health_check() before any load_model returns Starting,
\* for a backend built by either constructor.
C4_FreshIsStarting ==
    (last.op = "health_check" /\ ~load_called) => last.result = "Starting"

\* C4 (amended): before any load_model, health_check() on a backend built by
\* VllmBackend::new returns Starting and sends nothing; on a backend built by
\* connect_to, as long as the wire adapter it was constructed with is in
\* place, it sends one probe and returns Healthy or Degraded by the answer.
C4_FreshHealth ==
    (last.op = "health_check" /\ ~load_called
        /\ last.pre.client = (IF owns_process THEN None ELSE Some(ConnectUrl)))
    => IF owns_process
       THEN last.result = "Starting" /\ last.http = <<>>
       ELSE /\ Len(last.http) = 1
            /\ last.result = IF last.http[1].answer = "2xx"
                             THEN "Healthy" ELSE "Degraded"

C4_Witness ==
    /\ last.op = "health_check"
    /\ ~load_called
    /\ owns_process
    /\ last.pre.client = None
    /\ last.result = "Starting"

\* C5: load_model with an empty model identifier fails with InvalidConfig,
\* spawns nothing, sends nothing, and leaves the process handle, the wire
\* adapter and the recorded model identifier as they were.
C5_EmptyModelRejected ==
    (last.op = "load_model" /\ last.model_name = "") =>
        /\ last.result = "InvalidConfig"
        /\ last.spawned = 0
        /\ last.polls = 0
        /\ last.http = <<>>
        /\ last.signals = <<>>
        /\ process = last.pre.process
        /\ client = last.pre.client
        /\ current_model = last.pre.current_model

C5_Witness ==
    /\ last.op = "load_model"
    /\ last.model_name = ""
    /\ last.result = "InvalidConfig"
    /\ owns_process
    /\ last.pre.process # None
    /\ last.pre.current_model # None

\* C6: infer() on a backend without a wire adapter fails with
\* BackendNotRunning and sends no HTTP request.
C6_InferWithoutClient ==
    (last.op = "infer" /\ last.pre.client = None)
    => (last.result = "BackendNotRunning" /\ last.http = <<>>)

C6_Witness ==
    /\ last.op = "infer"
    /\ last.pre.client = None
    /\ load_called
    /\ last.result = "BackendNotRunning"

\* C7: every shutdown(), a second one in a row included, returns success and
\* leaves no process handle, no wire adapter and no recorded model.
C7_ShutdownIdempotent ==
    last.op = "shutdown" => (last.result = "Ok" /\ Terminated)

C7_Witness ==
    /\ last.op = "shutdown"
    /\ last.repeat
    /\ owns_process
    /\ last.pre.pstate = "nohandle"
    /\ \E p \in Pids : os[p] = "gone"
    /\ last.result = "Ok"
    /\ Terminated

\* C8: a load_model that directly follows a shutdown(), with a valid config,
\* a spawn that succeeds and an endpoint that answers 2xx, succeeds and
\* leaves a wire adapter installed.
C8_ReloadAfterShutdown ==
    [][(last.op = "shutdown"
          /\ \E config \in ModelConfigs, sched \in Schedules :
                /\ config.model_name # ""
                /\ sched.readyAt # 0
                /\ LoadModel(config, TRUE, sched, "2xx"))
       => (last'.result = "Ok" /\ client' # None)]_vars

\* C9: at most one engine process spawned by the backend is alive, and a live
\* one is the process the backend's handle refers to.
C9_OneLiveProcess ==
    ~dropped =>
        /\ Cardinality(Running) <= 1
        /\ \A p \in Running : process = Some([pid |-> Some(p)])

\* C10: after shutdown() or teardown of a backend that held a live owned
\* process, that process is no longer alive.
C10_ReleasedOnShutdownOrDrop ==
    (last.op \in {"shutdown", "drop"} /\ last.pre.pstate = "running")
    => os[last.pre.process[1].pid[1]] # "running"

\* C11: a load_model call with a non-empty model identifier returns success
\* only after one health probe that answered 2xx, and then the config's model
\* identifier is the recorded one; when the probe fails the call returns the
\* probe's error and the recorded model identifier is as before.
C11_LoadConcludesWithProbe ==
    (last.op = "load_model" /\ last.model_name # "") =>
        /\ last.result = "Ok" =>
              /\ Len(last.http) = 1
              /\ last.http[1].method = "GET"
              /\ last.http[1].path = "/health"
              /\ last.http[1].answer = "2xx"
              /\ current_model = Some(last.model_name)
        /\ (Len(last.http) = 1 /\ last.http[1].answer # "2xx") =>
              /\ last.result = client_health_check(last.http[1].answer)
              /\ last.result # "Ok"
              /\ current_model = last.pre.current_model

\* C12: a backend built by connect_to never has a process handle, never
\* spawns a process and never sends a signal; its load_model with a valid
\* config and a health endpoint that answers 2xx succeeds and records the
\* config's model identifier.
C12_ConnectToOwnsNothing ==
    [][~owns_process =>
          /\ process' = None
          /\ os' = os
          /\ nextPid' = nextPid
          /\ last'.signals = <<>>
          /\ last'.spawned = 0
          /\ \A config \in ModelConfigs, spawnOk \in BOOLEAN,
                sched \in Schedules :
                (config.model_name # ""
                    /\ LoadModel(config, spawnOk, sched, "2xx"))
                => (last'.result = "Ok"
                    /\ current_model' = Some(config.model_name))]_vars

C12_Witness ==
    /\ ~owns_process
    /\ last.op = "load_model"
    /\ last.result = "Ok"
    /\ Len(last.http) = 1
    /\ last.http[1].answer = "2xx"
    /\ last.http[1].url = ConnectUrl
    /\ current_model = Some("m2")
    /\ process = None

\* C13: wait_until_ready makes at most 60 polls; when the k-th poll is the
\* first to answer 2xx it returns success after exactly k polls, whatever
\* the failures before it were, and when no poll answers 2xx it fails with
\* ModelLoadFailed after exactly 60 polls.
C13_WaitUntilReady ==
    (last.op = "load_model" /\ last.sched # None) =>
        LET k == last.sched[1].readyAt
        IN  /\ last.polls \in 1..MaxAttempts
            /\ k \in 1..MaxAttempts =>
                  /\ last.polls = k
                  /\ last.result # "ModelLoadFailed"
                  /\ process = Some([pid |-> Some(last.spawned)])
            /\ k = 0 =>
                  /\ last.polls = MaxAttempts
                  /\ last.result = "ModelLoadFailed"
                  /\ process = last.pre.process

C13_Witness ==
    /\ last.op = "load_model"
    /\ last.sched = Some([readyAt |-> 10, failKind |-> "mixed"])
    /\ last.polls = 10
    /\ last.result = "Ok"

\* C14: the readiness polling of load_model probes the endpoint the engine
\* was launched on, and that is the endpoint the wire adapter is bound to
\* and the concluding health probe goes to.
C14_PollsLaunchedEndpoint ==
    (last.op = "load_model" /\ last.poll_url # None) =>
        /\ last.poll_url = last.launched
        /\ Len(last.http) = 1 =>
              /\ last.http[1].url = last.launched[1]
              /\ client = last.launched

\* C15: terminate sends SIGTERM first, re-checks liveness on the process
\* as it is when the grace period ends, sends SIGKILL after that and only
\* if the re-check said the process is still there, and returns success in
\* every case, also when the process had exited before the call.
C15_TerminateOrder ==
    (last.op = "shutdown" /\ last.pre.process # None) =>
        /\ last.result = "Ok"
        /\ last.signals \in {<<"SIGTERM">>, <<"SIGTERM", "SIGKILL">>}
        /\ last.recheck = Some(last.grace \in {"running", "zombie"})
        /\ (last.signals = <<"SIGTERM", "SIGKILL">>) <=> (last.recheck = Some(TRUE))

C15_Witness ==
    /\ last.op = "shutdown"
    /\ last.pre.pstate = "running"
    /\ last.grace = "running"
    /\ last.signals = <<"SIGTERM", "SIGKILL">>
    /\ last.result = "Ok"

\* C16: after terminate() on a process that ignored SIGTERM, SIGKILL has
\* been sent and is_running on that process says false; and is_running says
\* false for every process that has exited.
C16_ExitedIsNotRunning ==
    /\ (last.op = "shutdown" /\ last.grace = "running") =>
          /\ last.signals = <<"SIGTERM", "SIGKILL">>
          /\ ~is_running(os, last.pre.process[1])
    /\ \A p \in Pids : os[p] \in Exited => ~is_running(os, [pid |-> Some(p)])

\* C17: once health_check() has returned Failed, every later health_check()
\* returns Failed until shutdown() is called, whatever calls come between;
\* a health_check() that directly follows shutdown() does not return Failed.
C17_FailedAbsorbing ==
    [][(\E answer \in Answers : HealthCheck(answer)) =>
          /\ failed_reported => last'.result = "Failed"
          /\ last.op = "shutdown" => last'.result # "Failed"]_vars

\* C18: a load_model or shutdown call is never in progress together with
\* any other call on the same backend; infer and health_check calls may be
\* in progress together.
C18_LifecycleExclusive ==
    \A c, d \in Callers :
        (c # d /\ inflight[c] \in MutOps) => inflight[d] = "idle"

C18_Witness ==
    \E c, d, e \in Callers :
        /\ inflight[c] = "infer"
        /\ inflight[d] = "infer"
        /\ inflight[e] = "health_check"
        /\ c # d

\* C19: total_requests and failed_requests never decrease over the life of
\* a backend, and metrics() succeeds and changes nothing of the backend or
\* of the processes.
C19_CountersMonotone ==
    [][/\ metrics'.total_requests >= metrics.total_requests
       /\ metrics'.failed_requests >= metrics.failed_requests
       /\ Metrics => (last'.result = "Ok" /\ UNCHANGED <<backend, os, nextPid>>)
      ]_vars

C19_Witness ==
    /\ last.op = "metrics"
    /\ last.repeat
    /\ current_model # None
    /\ last.result = "Ok"

\* C20: total_requests is the number of infer calls processed since
\* construction and failed_requests the number of those that returned an
\* error: both start at 0, an infer call raises total_requests by one and
\* failed_requests by one exactly when it returns an error, and no other
\* step changes them.
C20_CountsInferCalls ==
    [][IF \E answer \in InferAnswers : Infer(answer)
       THEN /\ metrics'.total_requests = metrics.total_requests + 1
            /\ metrics'.failed_requests =
                  metrics.failed_requests + (IF last'.result = "Ok" THEN 0 ELSE 1)
       ELSE /\ metrics'.total_requests = metrics.total_requests
            /\ metrics'.failed_requests = metrics.failed_requests
      ]_vars

\* C21: no call is retried: an infer() call sends at most one POST to
\* /v1/completions and nothing else, a health_check() call sends at most one
\* GET to /health and nothing else, and when the one attempt failed the call
\* reports a failure (an error from infer, Degraded from health_check).
C21_NoRetry ==
    /\ last.op = "infer" =>
          /\ Len(last.http) <= 1
          /\ \A i \in 1..Len(last.http) :
                /\ last.http[i].method = "POST"
                /\ last.http[i].path = "/v1/completions"
                /\ last.http[i].answer # "2xx_choices" => last.result # "Ok"
    /\ last.op = "health_check" =>
          /\ Len(last.http) <= 1
          /\ \A i \in 1..Len(last.http) :
                /\ last.http[i].method = "GET"
                /\ last.http[i].path = "/health"
                /\ last.http[i].answer # "2xx" => last.result = "Degraded"

C21_Witness ==
    /\ last.op = "infer"
    /\ Len(last.http) = 1
    /\ last.http[1].answer = "transport"
    /\ last.result = "HttpError"

\* C22: the wire adapter's infer returns no success value for an answer
\* with a status that is not 2xx, nor for a 2xx answer with an empty choice
\* list: both are InferenceFailed; a success carries the text, finish reason
\* and token count of the first choice of the answer and the request's
\* identifier as the caller gave it, none when the caller gave none.
C22_WireInferResult ==
    last.op = "client_infer" =>
        /\ last.resp.kind = "non2xx" =>
              (last.result = "InferenceFailed" /\ last.response = None)
        /\ (last.resp.kind = "2xx" /\ last.resp.decodable
               /\ last.resp.choices = <<>>) =>
              (last.result = "InferenceFailed" /\ last.response = None)
        /\ last.result = "Ok" <=> last.response # None
        /\ last.result = "Ok" =>
              /\ last.resp.kind = "2xx"
              /\ Len(last.resp.choices) >= 1
              /\ last.response[1].text = last.resp.choices[1].text
              /\ last.response[1].finish_reason = last.resp.choices[1].finish_reason
              /\ last.response[1].tokens_generated =
                    (IF last.resp.choices[1].text_tokens = None THEN 0
                     ELSE last.resp.choices[1].text_tokens[1])
              /\ last.response[1].request_id = last.request.request_id

C22_Witness ==
    /\ last.op = "client_infer"
    /\ last.resp.choices = <<Choice1, Choice2>>
    /\ last.request.request_id = Some("r2")
    /\ last.result = "Ok"
    /\ last.response[1].text = "hi"
    /\ last.response[1].request_id = Some("r2")

\* C24: in the body of the completion request each of top_p, top_k,
\* presence_penalty, frequency_penalty and stop is present exactly when the
\* caller set it (for stop: gave a non-empty list), is then the JSON of the
\* caller's value, and is never null.
C24_OptionalFieldsOnWire ==
    last.op = "client_infer" =>
        LET sampling == last.request.sampling
            body == last.body
        IN  /\ \A f \in OptionalFields \ {"stop"} :
                  /\ f \in DOMAIN body <=> sampling[f] # None
                  /\ f \in DOMAIN body =>
                        /\ body[f] # <<"null">>
                        /\ body[f] = IF f = "top_k"
                                     THEN <<ToString(sampling[f][1])>>
                                     ELSE <<sampling[f][1]>>
            /\ "stop" \in DOMAIN body <=> sampling.stop_sequences # <<>>
            /\ "stop" \in DOMAIN body =>
                  body["stop"] = <<"[">> \o sampling.stop_sequences \o <<"]">>

\* C23: the launch config from_model_config derives is fixed by the
\* ModelConfig in each of its fields: host is the given host, 127.0.0.1 when
\* none is given; port is the given port, 8000 when none is given; model
\* identifier, tensor-parallel degree, max sequence length and precision
\* mode are the ModelConfig's.
C23_ConfigTranslation ==
    last.op = "from_model_config" =>
        LET c == last.config
            v == last.vllm_config
        IN  /\ DOMAIN v = {"model_name", "host", "port", "tensor_parallel_size",
                           "max_sequence_length", "dtype"}
            /\ v.host = (IF c.host = None THEN "127.0.0.1" ELSE c.host[1])
            /\ v.port = (IF c.port = None THEN 8000 ELSE c.port[1])
            /\ v.model_name = c.model_name
            /\ v.tensor_parallel_size = c.tensor_parallel_size
            /\ v.max_sequence_length = c.max_sequence_length
            /\ v.dtype = c.dtype

C23_Witness ==
    /\ last.op = "from_model_config"
    /\ last.config.host = None
    /\ last.config.port = None
    /\ last.config.dtype = Some("bfloat16")
    /\ last.vllm_config.host = "127.0.0.1"
    /\ last.vllm_config.port = 8000
    /\ last.vllm_config.dtype = Some("bfloat16")

\* C25 (as claimed): a load_model that returns an error, whichever error it
\* is, leaves the process handle, the wire adapter and the recorded model
\* identifier as they were before the call.
C25_FailedLoadChangesNothing ==
    (last.op = "load_model" /\ last.result # "Ok") =>
        /\ process = last.pre.process
        /\ client = last.pre.client
        /\ current_model = last.pre.current_model

\* C25 (amended): a load_model that returns an error leaves the recorded
\* model identifier as it was; when it failed before its concluding probe,
\* or the backend does not own its process, the process handle and the wire
\* adapter are as before too; when the concluding probe of an owning backend
\* failed, the handle of the process the call spawned and the wire adapter
\* bound to its endpoint stay installed.
C25_FailedLoad ==
    (last.op = "load_model" /\ last.result # "Ok") =>
        /\ current_model = last.pre.current_model
        /\ IF owns_process /\ last.http # <<>>
           THEN /\ process = Some([pid |-> Some(last.spawned)])
                /\ client = Some(last.http[1].url)
           ELSE /\ process = last.pre.process
                /\ client = last.pre.client

C25_Witness ==
    /\ last.op = "load_model"
    /\ last.result = "Unhealthy"
    /\ owns_process
    /\ last.pre.process # None
    /\ last.pre.current_model = Some("m1")
    /\ last.model_name = "m2"
    /\ process = Some([pid |-> Some(last.spawned)])
    /\ current_model = Some("m1")

\* C26: on a backend that owns its process the process handle is present
\* exactly when the wire adapter is, and on every backend a recorded model
\* identifier comes with a wire adapter.
C26_HandleAdapterModel ==
    /\ owns_process => (process # None <=> client # None)
    /\ current_model # None => client # None

\* C27: an infer() or health_check() call, whatever it returns, leaves the
\* process handle, the wire adapter, the ownership flag, the recorded model
\* identifier and the metrics as they were, spawns no process and sends no
\* signal.
C27_ReadOnlyCalls ==
    [][((\E answer \in InferAnswers : Infer(answer))
           \/ (\E answer \in Answers : HealthCheck(answer)))
       => /\ process' = process
          /\ client' = client
          /\ owns_process' = owns_process
          /\ current_model' = current_model
          /\ metrics' = metrics
          /\ os' = os
          /\ nextPid' = nextPid
          /\ last'.spawned = 0
          /\ last'.signals = <<>>]_vars

C27_Witness ==
    /\ last.op = "health_check"
    /\ last.result = "Failed"
    /\ owns_process
    /\ process # None
    /\ process = last.pre.process
    /\ client = last.pre.client
    /\ current_model # None

====
